---- MODULE Spec2Model ----
(***************************************************************************)
(* originpro: a Python binding that drives the Origin host application.    *)
(* The model covers the application handle and the live-object counter     *)
(* (config.py, base.py, utils.py) and the fitting session wrappers         *)
(* (analysis.py).  Every host call an operation makes is recorded, in      *)
(* order, in the variable sent; the host itself is reduced to the state    *)
(* the wrapper reads back (system variable @NLFS, the fit trees).          *)
(***************************************************************************)
EXTENDS Integers, Sequences, FiniteSets, TLC

VARIABLES
    oext,        \* config.oext: TRUE in external (OriginExt) mode
    EXIT,        \* config._EXIT[0]
    OBJS_COUNT,  \* config._OBJS_COUNT[0]
    app,         \* APP._app: "None", "Application" or "ApplicationSI"
    first,       \* APP._first
    objs,        \* BaseObject instances: "none", "live", "failed" (__init__ raised)
    fit,         \* the NLFit object bound to the script's variable, or NoFit
    lr,          \* TRUE while a LinearFit object exists
    NLFS,        \* host system variable @NLFS
    nltree,      \* host tree _PY_NLFIT_TREE: parameter values and fix flags
    lrtree,      \* host tree _PY_LR_TREE.GUI
    sent,        \* host calls issued by the last operation, in order
    last,        \* the last operation: its name, arguments and raised error
    hist,        \* history: what has happened so far (never read by an operation)
    sheetDC,     \* host: the Data Connector of the sheet's book, "" when none
    IMPS,        \* host system variable @IMPS
    conn,        \* the Connector object the script holds, or NoConn
    pydict,      \* the dict the script holds, or NoDict
    lttree       \* host tree variable: its XML element, or NoElem

vars == <<oext, EXIT, OBJS_COUNT, app, first, objs, fit, lr, NLFS, nltree,
          lrtree, sent, last, hist, sheetDC, IMPS, conn, pydict, lttree>>

dcVars == <<sheetDC, IMPS, conn>>
xmlVars == <<pydict, lttree>>

appVars == <<oext, EXIT, OBJS_COUNT, app, first, objs>>
fitVars == <<fit, nltree>>
lrVars  == <<lr, lrtree>>

(***************************************************************************)
(* Bounds                                                                  *)
(***************************************************************************)
MaxObjs == 2      \* wrapper objects that can exist at once
MaxCreated == 2   \* the history counters saturate here
MaxVal == 1       \* numeric arguments range over 0..MaxVal
MaxNLFS == 1      \* @NLFS ranges over 0..MaxNLFS

ObjIds == 1..MaxObjs

Sat(n) == IF n < MaxCreated THEN n + 1 ELSE n

(***************************************************************************)
(* Python values and their text in an f-string / str()                     *)
(***************************************************************************)
PyBool(b) == [t |-> "bool", n |-> IF b THEN 1 ELSE 0]
PyNum(n)  == [t |-> "int", n |-> n]
PyNone    == [t |-> "none", n |-> 0]

Digits == <<"0", "1", "2", "3", "4", "5", "6", "7", "8", "9">>

\* str(n) of a small non-negative integer
Str(n) == Digits[n + 1]

\* f'{val}': a bool prints as True/False, a number as its digits
Fmt(val) == IF val.t = "bool" THEN (IF val.n = 1 THEN "True" ELSE "False")
            ELSE IF val.t = "none" THEN "None"
            ELSE Str(val.n)

\* one host call: the entry point used and the text passed to it
Cmd(op, text) == [op |-> op, text |-> text]

NoHist == [autoDetached |-> FALSE, created |-> 0, begun |-> FALSE, ends |-> 0,
           nlfs0 |-> 0]

(***************************************************************************)
(* config.py: the APP handle (external mode only)                          *)
(***************************************************************************)
ModuleAttrs == {"DF_DOUBLE"}      \* names found on the OriginExt module
AppAttrs    == {"LT_execute"}     \* names found on an Application instance only
AttrNames   == ModuleAttrs \cup AppAttrs \cup {"no_such_name"}

\* getattr(OriginExt, name) succeeds
OnModule(name) == name \in ModuleAttrs

\* APP.__getattr__: "if self._app is None"
NoAppHeld_always(a) == TRUE
NoAppHeld(a) == a = "None"

\* APP.__getattr__(name): the handle afterwards, the host calls made, the outcome
APP_getattr(a, name) ==
    IF OnModule(name)
    THEN [app |-> a, calls |-> <<>>, err |-> ""]
    ELSE LET a1 == IF NoAppHeld(a) THEN "Application" ELSE a
             c1 == IF NoAppHeld(a)
                   THEN <<Cmd("OriginExt.Application", <<>>)>> ELSE <<>>
         IN [app |-> a1, calls |-> c1,
             err |-> IF name \in AppAttrs THEN "" ELSE "AttributeError"]

\* APP.Exit(releaseonly)
APP_Exit(a, releaseonly) ==
    IF a # "None"
    THEN [app |-> "None", calls |-> <<Cmd("app.Exit", <<Fmt(PyBool(releaseonly))>>)>>]
    ELSE [app |-> a, calls |-> <<>>]

\* APP.Attach(): releaseonly is False on the first call only
APP_Attach(a, f) ==
    LET releaseonly == IF f THEN FALSE ELSE TRUE
        x == APP_Exit(a, releaseonly)
    IN [app |-> "ApplicationSI", first |-> FALSE,
        calls |-> x.calls \o <<Cmd("OriginExt.ApplicationSI", <<>>)>>]

\* APP.Detach()
APP_Detach(a) == APP_Exit(a, TRUE)

\* the marker recorded in sent when the package itself calls po.Detach()
AutoDetach(by) == Cmd("po.Detach", <<by>>)

\* _exit_handler: "if not _OBJS_COUNT[0]"
HandlerDetaches(count) == count = 0

\* BaseObject.__del__: "if _EXIT[0] and not _OBJS_COUNT[0]"
DelDetaches_never(exit, count) == FALSE
DelDetaches_noExit(exit, count) == count = 0
DelDetaches(exit, count) == exit /\ count = 0

\* po.<name> through APP.__getattr__
GetAttr(name) ==
    /\ oext
    /\ LET r == APP_getattr(app, name)
       IN /\ app' = r.app
          /\ sent' = r.calls
          /\ last' = [op |-> "getattr", name |-> name, err |-> r.err]
          /\ hist' = [hist EXCEPT !.created = IF r.calls # <<>> THEN Sat(@) ELSE @]
    /\ UNCHANGED <<dcVars, xmlVars, oext, EXIT, OBJS_COUNT, first, objs, fit, lr, NLFS, nltree, lrtree>>

\* utils.attach()
attach ==
    /\ IF oext
       THEN LET r == APP_Attach(app, first)
            IN /\ app' = r.app
               /\ first' = r.first
               /\ sent' = r.calls
               /\ hist' = [hist EXCEPT !.created = 0]
       ELSE /\ sent' = <<>>
            /\ UNCHANGED <<app, first, hist>>
    /\ last' = [op |-> "attach", err |-> ""]
    /\ UNCHANGED <<dcVars, xmlVars, oext, EXIT, OBJS_COUNT, objs, fit, lr, NLFS, nltree, lrtree>>

\* utils.detach()
detach ==
    /\ IF oext
       THEN LET r == APP_Detach(app)
            IN /\ app' = r.app
               /\ sent' = r.calls
               /\ hist' = [hist EXCEPT !.created = 0]
       ELSE /\ sent' = <<>>
            /\ UNCHANGED <<app, hist>>
    /\ last' = [op |-> "detach", err |-> ""]
    /\ UNCHANGED <<dcVars, xmlVars, oext, EXIT, OBJS_COUNT, first, objs, fit, lr, NLFS, nltree, lrtree>>

\* utils.exit()
exit ==
    /\ IF oext
       THEN LET r == APP_Exit(app, FALSE)
            IN /\ app' = r.app
               /\ sent' = r.calls
               /\ hist' = [hist EXCEPT !.created = 0]
       ELSE /\ sent' = <<Cmd("LT_execute", <<"exit">>)>>
            /\ UNCHANGED <<app, hist>>
    /\ last' = [op |-> "exit", err |-> ""]
    /\ UNCHANGED <<dcVars, xmlVars, oext, EXIT, OBJS_COUNT, first, objs, fit, lr, NLFS, nltree, lrtree>>

\* config._exit_handler, registered with atexit in external mode
exit_handler ==
    /\ oext
    /\ ~EXIT
    /\ EXIT' = TRUE
    /\ IF HandlerDetaches(OBJS_COUNT)
       THEN LET r == APP_Detach(app)
            IN /\ app' = r.app
               /\ sent' = <<AutoDetach("_exit_handler")>> \o r.calls
               /\ hist' = [hist EXCEPT !.created = 0, !.autoDetached = TRUE]
       ELSE /\ sent' = <<>>
            /\ UNCHANGED <<app, hist>>
    /\ last' = [op |-> "_exit_handler", err |-> ""]
    /\ UNCHANGED <<dcVars, xmlVars, oext, OBJS_COUNT, first, objs, fit, lr, NLFS, nltree, lrtree>>

\* BaseObject.__init__(obj): "_OBJS_COUNT[0] += 1" stands before
\* "if obj is None: raise TypeError", so every construction is counted
InitCounts_ifValid(obj) == obj # "None"
InitCounts(obj) == TRUE

\* BaseObject.__init__(obj)
BaseObject_init(o, obj) ==
    /\ objs[o] = "none"
    /\ OBJS_COUNT' = IF oext /\ InitCounts(obj) THEN OBJS_COUNT + 1 ELSE OBJS_COUNT
    /\ objs' = [objs EXCEPT ![o] = IF obj = "None" THEN "failed" ELSE "live"]
    /\ sent' = <<>>
    /\ last' = [op |-> "BaseObject.__init__", o |-> o,
                err |-> IF obj = "None" THEN "TypeError" ELSE ""]
    /\ UNCHANGED <<dcVars, xmlVars, oext, EXIT, app, first, fit, lr, NLFS, nltree, lrtree, hist>>

\* BaseObject.__del__: runs for every instance, also one whose __init__ raised
BaseObject_del(o) ==
    /\ objs[o] # "none"
    /\ objs' = [objs EXCEPT ![o] = "none"]
    /\ IF oext
       THEN LET c == OBJS_COUNT - 1
            IN /\ OBJS_COUNT' = c
               /\ IF DelDetaches(EXIT, c)
                  THEN LET r == APP_Detach(app)
                       IN /\ app' = r.app
                          /\ sent' = <<AutoDetach("__del__")>> \o r.calls
                          /\ hist' = [hist EXCEPT !.created = 0,
                                                  !.autoDetached = TRUE]
                  ELSE /\ sent' = <<>>
                       /\ UNCHANGED <<app, hist>>
       ELSE /\ sent' = <<>>
            /\ UNCHANGED <<OBJS_COUNT, app, hist>>
    /\ last' = [op |-> "BaseObject.__del__", o |-> o, err |-> ""]
    /\ UNCHANGED <<dcVars, xmlVars, oext, EXIT, first, fit, lr, NLFS, nltree, lrtree>>

NoFit == [live |-> FALSE]
NoConn == [live |-> FALSE]
NoDict == [t |-> "none", n |-> 0]
NoElem == [tag |-> ""]

InitBase ==
    /\ EXIT = FALSE
    /\ OBJS_COUNT = 0
    /\ app = "None"
    /\ first = TRUE
    /\ objs = [o \in ObjIds |-> "none"]
    /\ fit = NoFit
    /\ lr = FALSE
    /\ sent = <<>>
    /\ last = [op |-> "import", err |-> ""]

\* nothing imported, converted or connected yet
InitExt ==
    /\ sheetDC = ""
    /\ IMPS = 0
    /\ conn = NoConn
    /\ pydict = NoDict
    /\ lttree = NoElem

InitApp ==
    /\ InitBase
    /\ InitExt
    /\ oext \in BOOLEAN
    /\ NLFS = 0
    /\ nltree = <<>>
    /\ lrtree = <<>>
    /\ hist = NoHist

NextApp ==
    \/ \E name \in AttrNames : GetAttr(name)
    \/ attach
    \/ detach
    \/ exit
    \/ exit_handler
    \/ \E o \in ObjIds, obj \in {"None", "handle"} : BaseObject_init(o, obj)
    \/ \E o \in ObjIds : BaseObject_del(o)

SpecApp == InitApp /\ [][NextApp]_vars

Live == {o \in ObjIds : objs[o] # "none"}

(***************************************************************************)
(* The host as the fitting wrappers see it                                 *)
(***************************************************************************)
Params == {"xc"}                  \* parameter names of the fitting function

\* f'f_{p}'
FixKey(p) == CASE p = "xc" -> "f_xc"

TreeKeys == Params \cup {FixKey(p) : p \in Params}
NumText == {Str(n) : n \in 0..MaxVal}
Missing == "--"                   \* a tree node that does not exist

NoTree == [k \in TreeKeys |-> Missing]

\* the trees nlbegin can leave: parameters at the function's initial values,
\* nothing fixed
BegunTrees == {t \in [TreeKeys -> NumText] : \A p \in Params : t[FixKey(p)] = "0"}

BeginCmds == {"nlbegin", "nlbegino", "nlbeginz", "nlbeginm", "nlbeginr", "nlbeginor"}

IsBegin(c) == c.op = "LT_execute" /\ Len(c.text) > 0 /\ c.text[1] \in BeginCmds
IsEnd(c) == c.op = "LT_execute" /\ Len(c.text) > 0 /\ c.text[1] = "nlend"
IsNLFS(c) == c.op \in {"LT_evaluate", "LT_set_var"} /\ c.text[1] = "@NLFS"

HasBegin(cmds) == \E i \in 1..Len(cmds) : IsBegin(cmds[i])
NumEnds(cmds) == Cardinality({i \in 1..Len(cmds) : IsEnd(cmds[i])})

\* history of the NLFit object after an operation that issued cmds
HistAfter(h, cmds) ==
    IF HasBegin(cmds)
    THEN [h EXCEPT !.begun = TRUE, !.ends = 0]
    ELSE [h EXCEPT !.ends = IF @ + NumEnds(cmds) > MaxCreated THEN MaxCreated
                            ELSE @ + NumEnds(cmds)]

(***************************************************************************)
(* utils.py: reading a host tree                                           *)
(***************************************************************************)
\* lt_tree_to_dict(name): the host calls of _LTTMPOUTSTR around the read
lt_tree_to_dict(name) ==
    << Cmd("LT_execute", <<"string", "__PYLTOUTSTR", "=", name>>),
       Cmd("LT_get_str", <<"__PYLTOUTSTR">>),
       Cmd("LT_execute", <<"del -al", "__PYLTOUTSTR">>) >>

(***************************************************************************)
(* analysis.py: NLFit                                                      *)
(***************************************************************************)
NLTreeName == "_PY_NLFIT_TREE"

Methods == {"auto", "odr", "lm", "simplex"}
Dims == {1, 2}

\* what GetFDFAsXML returns for the function name: nothing parseable, or the
\* GeneralInformation section of the function's definition
Funcs == {[valid |-> FALSE]} \cup
         [valid : {TRUE}, implicit : BOOLEAN, numDeps : Dims, numIndeps : Dims]

\* NLFit.__init__: the method check
ChooseMethod_lmAny(method, implicit) ==
    IF method = "auto" THEN [err |-> "", odr |-> implicit]
    ELSE IF method = "odr" THEN [err |-> "", odr |-> TRUE]
    ELSE IF method = "lm" THEN [err |-> "", odr |-> FALSE]
    ELSE [err |-> "ValueError", odr |-> FALSE]
ChooseMethod(method, implicit) ==
    IF method = "auto" THEN [err |-> "", odr |-> implicit]
    ELSE IF method = "odr" THEN [err |-> "", odr |-> TRUE]
    ELSE IF method = "lm"
         THEN IF implicit THEN [err |-> "ValueError", odr |-> FALSE]
              ELSE [err |-> "", odr |-> FALSE]
    ELSE [err |-> "ValueError", odr |-> FALSE]

\* NLFit._set(property, value): LT_execute(f'{tr}.{property}={value}')
NLFit_set(property, value) == Cmd("LT_execute", <<NLTreeName, property, "=", value>>)

\* NLFit.__del__
NLFit_delcmd == Cmd("LT_execute", <<"del -vt", NLTreeName>>)

\* NLFit(func, method), bound to the script's variable.  A constructor that
\* raises leaves the variable as it was; the instance it was building is
\* collected, and so is the object the variable held before a successful
\* rebinding: either way one __del__ runs, unless nothing is released.
NLFit_init(func, method) ==
    LET valid == func.valid
        implicit == valid /\ func.implicit
        m == ChooseMethod(method, implicit)
        err == IF ~valid THEN "ValueError" ELSE m.err
        released == err # "" \/ fit.live
        cmds == <<Cmd("LT_get_str", <<"GetFDFAsXML">>)>>
                \o (IF released THEN <<NLFit_delcmd>> ELSE <<>>)
    IN /\ fit' = IF err = ""
                 THEN [live |-> TRUE, ended |-> FALSE, implicit |-> implicit,
                       odr |-> m.odr, numDeps |-> func.numDeps,
                       numIndeps |-> func.numIndeps]
                 ELSE fit
       /\ nltree' = IF released THEN NoTree ELSE nltree
       /\ sent' = cmds
       /\ last' = [op |-> "NLFit.__init__", valid |-> valid, implicit |-> implicit,
                   method |-> method, err |-> err]
       /\ hist' = IF err = "" THEN [hist EXCEPT !.begun = FALSE, !.ends = 0]
                  ELSE hist
       /\ UNCHANGED <<dcVars, xmlVars, appVars, lrVars, NLFS>>

\* del model
NLFit_del ==
    /\ fit.live
    /\ fit' = NoFit
    /\ nltree' = NoTree
    /\ sent' = <<NLFit_delcmd>>
    /\ last' = [op |-> "NLFit.__del__", err |-> ""]
    /\ hist' = [hist EXCEPT !.begun = FALSE, !.ends = 0]
    /\ UNCHANGED <<dcVars, xmlVars, appVars, lrVars, NLFS>>

\* a begin command reaches the host: the tree is (re)built
Begin(xf, rng, op) ==
    /\ \E t \in BegunTrees : nltree' = t
    /\ sent' = <<Cmd("LT_execute", <<xf, rng, "func", NLTreeName>>)>>
    /\ fit' = [fit EXCEPT !.ended = FALSE]
    /\ last' = [op |-> op, err |-> ""]
    /\ hist' = HistAfter(hist, sent')
    /\ UNCHANGED <<dcVars, xmlVars, appVars, lrVars, NLFS>>

\* NLFit.set_data(wks, x, y, yerr, xerr, z)
NLFit_set_data(z) ==
    /\ fit.live
    /\ LET xf == IF z # "" THEN "nlbeginz"
                 ELSE IF fit.odr THEN "nlbegino" ELSE "nlbegin"
       IN Begin(xf, "xyrange", "NLFit.set_data")

\* NLFit.set_mdata(ms, z): "z =+ 1" binds z to +1 when z is an int
NLFit_set_mdata(z) ==
    /\ fit.live
    /\ LET z1 == IF z.t \in {"int", "bool"} THEN PyNum(1) ELSE z
       IN Begin("nlbeginm", Fmt(z1), "NLFit.set_mdata")

\* NLFit.set_range(rg)
NLFit_set_range ==
    /\ fit.live
    /\ LET plain == \/ (fit.implicit /\ fit.numIndeps = 2)
                    \/ (~fit.implicit /\ fit.numDeps = 1 /\ fit.numIndeps = 1)
           xf == IF fit.odr
                 THEN (IF plain THEN "nlbegino" ELSE "nlbeginor")
                 ELSE (IF plain THEN "nlbegin" ELSE "nlbeginr")
       IN Begin(xf, "rg", "NLFit.set_range")

\* the host executes <tree>.<property>=<value>
HostAssign(tree, property, value) == [tree EXCEPT ![property] = value]

\* NLFit.fix_param: isinstance(val, bool)
IsBool_orSmallInt(val) == val.n \in {0, 1}
IsBool(val) == val.t = "bool"

\* NLFit.fix_param(p, val): the commands it sends, in order
fix_param_cmds(p, val) ==
    LET fix == IF IsBool(val) THEN (IF val.n = 1 THEN 1 ELSE 0) ELSE 1
    IN (IF IsBool(val) THEN <<>> ELSE <<NLFit_set(p, Fmt(val))>>)
       \o <<NLFit_set(FixKey(p), Str(fix))>>

RECURSIVE HostRun(_, _)
\* the tree after the host has run the assignments cmds, first to last
HostRun(tree, cmds) ==
    IF cmds = <<>> THEN tree
    ELSE LET text == Head(cmds).text
         IN HostRun(HostAssign(tree, text[Len(text) - 2], text[Len(text)]), Tail(cmds))

NLFit_fix_param(p, val) ==
    /\ fit.live
    /\ sent' = fix_param_cmds(p, val)
    /\ nltree' = HostRun(nltree, sent')
    /\ last' = [op |-> "NLFit.fix_param", p |-> p, val |-> val, err |-> ""]
    /\ hist' = HistAfter(hist, sent')
    /\ UNCHANGED <<dcVars, xmlVars, appVars, lrVars, NLFS, fit>>

\* NLFit.set_param(p, val)
NLFit_set_param(p, val) ==
    /\ fit.live
    /\ sent' = <<NLFit_set(p, Fmt(val))>>
    /\ nltree' = HostRun(nltree, sent')
    /\ last' = [op |-> "NLFit.set_param", p |-> p, val |-> val, err |-> ""]
    /\ hist' = HistAfter(hist, sent')
    /\ UNCHANGED <<dcVars, xmlVars, appVars, lrVars, NLFS, fit>>

\* NLFit.param_box()
NLFit_param_box ==
    /\ fit.live
    /\ sent' = <<Cmd("LT_execute", <<"nlpara", "1">>)>>
    /\ last' = [op |-> "NLFit.param_box", err |-> ""]
    /\ hist' = HistAfter(hist, sent')
    /\ UNCHANGED <<dcVars, xmlVars, appVars, lrVars, NLFS, fit, nltree>>

\* NLFit.fit(iter)
NLFit_fit(iter) ==
    /\ fit.live
    /\ sent' = <<Cmd("LT_execute", <<"nlfit", iter>>)>>
    /\ last' = [op |-> "NLFit.fit", err |-> ""]
    /\ hist' = HistAfter(hist, sent')
    /\ UNCHANGED <<dcVars, xmlVars, appVars, lrVars, NLFS, fit, nltree>>

\* NLFit.result: "if not self._ended"
ResultEnds_always(ended) == TRUE
ResultEnds(ended) == ~ended

\* the flag NLFit.result() leaves after sending nlend
ResultEndedFlag_unset == FALSE
ResultEndedFlag == TRUE

\* NLFit.result()
NLFit_result ==
    /\ fit.live
    /\ IF ResultEnds(fit.ended)
       THEN /\ sent' = <<Cmd("LT_execute", <<"nlend">>)>> \o lt_tree_to_dict(NLTreeName)
            /\ fit' = [fit EXCEPT !.ended = ResultEndedFlag]
       ELSE /\ sent' = lt_tree_to_dict(NLTreeName)
            /\ fit' = fit
    /\ last' = [op |-> "NLFit.result", err |-> ""]
    /\ hist' = HistAfter(hist, sent')
    /\ UNCHANGED <<dcVars, xmlVars, appVars, lrVars, NLFS, nltree>>

\* NLFit.report: "if self._ended: raise ValueError"
ReportRaises_never(ended) == FALSE
ReportRaises(ended) == ended

\* po.LT_set_var('@NLFS', oldVal): the value @NLFS is left with by report()
RestoreNLFS_skipped(oldVal) == 0
RestoreNLFS(oldVal) == oldVal

\* the host calls of report() around its end/report command body
WithNLFS(oldVal, body) ==
    << Cmd("LT_evaluate", <<"@NLFS">>), Cmd("LT_set_var", <<"@NLFS", "0">>) >>
    \o body
    \o << Cmd("LT_set_var", <<"@NLFS", Str(RestoreNLFS(oldVal))>>),
          Cmd("LT_get_str", <<"__REPORT">>), Cmd("LT_get_str", <<"__FITCURVE">>) >>

\* NLFit.report(autoupdate)
NLFit_report(autoupdate) ==
    /\ fit.live
    /\ IF ReportRaises(fit.ended)
       THEN /\ sent' = <<>>
            /\ last' = [op |-> "NLFit.report", err |-> "ValueError"]
            /\ UNCHANGED <<fit, NLFS>>
       ELSE LET oldVal == NLFS
                end == IF autoupdate THEN <<"nlend", "1", "1">> ELSE <<"nlend", "1">>
            IN /\ sent' = WithNLFS(oldVal, <<Cmd("LT_execute", end)>>)
               /\ fit' = [fit EXCEPT !.ended = TRUE]
               /\ NLFS' = RestoreNLFS(oldVal)
               /\ last' = [op |-> "NLFit.report", err |-> ""]
    /\ hist' = HistAfter(hist, sent')
    /\ UNCHANGED <<dcVars, xmlVars, appVars, lrVars, nltree>>

PyVals == {PyBool(TRUE), PyBool(FALSE)} \cup {PyNum(n) : n \in 0..MaxVal}

InitFit ==
    /\ InitBase
    /\ InitExt
    /\ oext = TRUE
    /\ NLFS \in 0..MaxNLFS
    /\ nltree = NoTree
    /\ lrtree = <<>>
    /\ hist = [NoHist EXCEPT !.nlfs0 = NLFS]

NextFit ==
    \/ \E func \in Funcs, method \in Methods : NLFit_init(func, method)
    \/ NLFit_del
    \/ \E z \in {"", "zcol"} : NLFit_set_data(z)
    \/ \E z \in {PyNum(0), PyNum(MaxVal + 1), [t |-> "str", n |-> MaxVal + 1]} :
          NLFit_set_mdata(z)
    \/ NLFit_set_range
    \/ \E p \in Params, val \in PyVals : NLFit_fix_param(p, val)
    \/ \E p \in Params, n \in 0..MaxVal : NLFit_set_param(p, PyNum(n))
    \/ NLFit_param_box
    \/ \E iter \in {"", "1"} : NLFit_fit(iter)
    \/ NLFit_result
    \/ \E autoupdate \in BOOLEAN : NLFit_report(autoupdate)

SpecFit == InitFit /\ [][NextFit]_vars

(***************************************************************************)
(* analysis.py: LinearFit                                                  *)
(***************************************************************************)
LRTreeName == "_PY_LR_TREE"
LROutName == "_PY_LR_OUTPUT"

LRKeys == {"Fit.FixSlope", "Fit.FixSlopeAt", "Fit.FixIntercept", "Fit.FixInterceptAt",
           "Graph1.ConfBands", "Graph1.PredBands", "InputData.Range1.X$",
           "InputData.Range1.Y$", "InputData.Range1.ED$"}

NoLRTree == [k \in LRKeys |-> Missing]

\* the GUI tree "xop execute:=init classname:=FitLinear" builds: nothing fixed,
\* no bands, every other node at the host's default
InitLRTree == [k \in LRKeys |->
                 IF k \in {"Fit.FixSlope", "Fit.FixIntercept", "Graph1.ConfBands",
                           "Graph1.PredBands"} THEN "0" ELSE Missing]

\* LinearFit._set(property, value): LT_execute(f'{tr}.GUI.{property}={value}')
LinearFit_set(property, value) ==
    Cmd("LT_execute", <<LRTreeName, "GUI", property, "=", value>>)

\* LinearFit.__del__
LinearFit_delcmd == Cmd("LT_execute", <<"del -vt", LRTreeName>>)

\* LinearFit(), bound to the script's variable; the object the variable held
\* before is collected after the new one is built, and its __del__ deletes the
\* tree of that name
LinearFit_init ==
    /\ sent' = << Cmd("LT_execute", <<"Tree", LRTreeName>>),
                  Cmd("LT_execute", <<"xop", "execute:=init", LRTreeName>>) >>
               \o (IF lr THEN <<LinearFit_delcmd>> ELSE <<>>)
    /\ lr' = TRUE
    /\ lrtree' = IF lr THEN NoLRTree ELSE InitLRTree
    /\ last' = [op |-> "LinearFit.__init__", err |-> ""]
    /\ UNCHANGED <<dcVars, xmlVars, appVars, fitVars, NLFS, hist>>

\* del lr
LinearFit_del ==
    /\ lr
    /\ lr' = FALSE
    /\ lrtree' = NoLRTree
    /\ sent' = <<LinearFit_delcmd>>
    /\ last' = [op |-> "LinearFit.__del__", err |-> ""]
    /\ UNCHANGED <<dcVars, xmlVars, appVars, fitVars, NLFS, hist>>

\* LinearFit.set_data(wks, x, y, err)
LinearFit_set_data(err) ==
    /\ lr
    /\ sent' = << LinearFit_set("InputData.Range1.X$", "xcol"),
                  LinearFit_set("InputData.Range1.Y$", "ycol") >>
               \o (IF err # "" THEN <<LinearFit_set("InputData.Range1.ED$", err)>>
                   ELSE <<>>)
    /\ lrtree' = HostRun(lrtree, sent')
    /\ last' = [op |-> "LinearFit.set_data", err |-> ""]
    /\ UNCHANGED <<dcVars, xmlVars, appVars, fitVars, lr, NLFS, hist>>

\* LinearFit.fix_slope(val): the commands it sends, in order
fix_slope_cmds(val) ==
    << LinearFit_set("Fit.FixSlope", Str(1)), LinearFit_set("Fit.FixSlopeAt", Fmt(val)) >>

\* LinearFit.fix_intercept(val): the commands it sends, in order
fix_intercept_cmds(val) ==
    << LinearFit_set("Fit.FixIntercept", Str(1)),
       LinearFit_set("Fit.FixInterceptAt", Fmt(val)) >>

LinearFit_fix_slope(val) ==
    /\ lr
    /\ sent' = fix_slope_cmds(val)
    /\ lrtree' = HostRun(lrtree, sent')
    /\ last' = [op |-> "LinearFit.fix_slope", val |-> val, err |-> ""]
    /\ UNCHANGED <<dcVars, xmlVars, appVars, fitVars, lr, NLFS, hist>>

LinearFit_fix_intercept(val) ==
    /\ lr
    /\ sent' = fix_intercept_cmds(val)
    /\ lrtree' = HostRun(lrtree, sent')
    /\ last' = [op |-> "LinearFit.fix_intercept", val |-> val, err |-> ""]
    /\ UNCHANGED <<dcVars, xmlVars, appVars, fitVars, lr, NLFS, hist>>

\* LinearFit.result(): the host runs the fit with the GUI tree as it is
LinearFit_result ==
    /\ lr
    /\ sent' = <<Cmd("LT_execute", <<"xop", "execute:=run", LRTreeName, LROutName>>)>>
               \o lt_tree_to_dict(LROutName)
               \o <<Cmd("LT_execute", <<"del -vt", LROutName>>)>>
    /\ last' = [op |-> "LinearFit.result", err |-> "",
                slopeFixed |-> lrtree["Fit.FixSlope"],
                interceptFixed |-> lrtree["Fit.FixIntercept"]]
    /\ UNCHANGED <<dcVars, xmlVars, appVars, fitVars, lrVars, NLFS, hist>>

\* LinearFit.report(band): band & 1, band & 2
LinearFit_report(band) ==
    /\ lr
    /\ LET bands == (IF band % 2 = 1 THEN <<LinearFit_set("Graph1.ConfBands", Str(1))>>
                     ELSE <<>>)
                    \o (IF (band \div 2) % 2 = 1
                        THEN <<LinearFit_set("Graph1.PredBands", Str(1))>> ELSE <<>>)
           oldVal == NLFS
       IN /\ sent' = bands
                     \o WithNLFS(oldVal, <<Cmd("LT_execute",
                                    <<"xop", "execute:=report", LRTreeName>>)>>)
          /\ lrtree' = HostRun(lrtree, bands)
          /\ NLFS' = RestoreNLFS(oldVal)
    /\ last' = [op |-> "LinearFit.report", err |-> ""]
    /\ UNCHANGED <<dcVars, xmlVars, appVars, fitVars, lr, hist>>

Bands == 0..3
LRVals == PyVals \cup {PyNone}

InitLR ==
    /\ InitBase
    /\ InitExt
    /\ oext = TRUE
    /\ NLFS \in 0..MaxNLFS
    /\ nltree = NoTree
    /\ lrtree = NoLRTree
    /\ hist = [NoHist EXCEPT !.nlfs0 = NLFS]

NextLR ==
    \/ LinearFit_init
    \/ LinearFit_del
    \/ \E err \in {"", "ecol"} : LinearFit_set_data(err)
    \/ \E val \in LRVals : LinearFit_fix_slope(val)
    \/ \E val \in LRVals : LinearFit_fix_intercept(val)
    \/ LinearFit_result
    \/ \E band \in Bands : LinearFit_report(band)

SpecLR == InitLR /\ [][NextLR]_vars

\* the operations that decide whether a report() runs and what it does to @NLFS
NextReport ==
    \/ \E func \in Funcs, method \in Methods : NLFit_init(func, method)
    \/ NLFit_set_range
    \/ NLFit_result
    \/ \E autoupdate \in BOOLEAN : NLFit_report(autoupdate)
    \/ LinearFit_init
    \/ \E band \in Bands : LinearFit_report(band)

SpecReport == InitLR /\ [][NextReport]_vars

(***************************************************************************)
(* utils.py, base.py, dc.py: importing a file through a Data Connector     *)
(***************************************************************************)
MaxIMPS == 1      \* @IMPS ranges over 0..MaxIMPS

\* file names, as their characters grouped into words, "." and "/"
Fnames == { <<"a", ".", "csv">>, <<"d", ".", "xls", "/", "a", ".", "xlsx">>,
            <<"a", ".", "CSV">>, <<"d", ".", "csv", "/", "a">>, <<".", "dat">>,
            <<"a", ".", "txt">> }

SetMax(S) == CHOOSE x \in S : \A y \in S : y <= x

\* os.path.splitext(fname)[1]: from the last dot of the last path component,
\* unless only dots precede it there
splitext(fname) ==
    LET start == SetMax({i \in 1..Len(fname) : fname[i] = "/"} \cup {0}) + 1
        dots == {i \in start..Len(fname) : fname[i] = "."}
    IN IF dots = {} THEN <<>>
       ELSE LET d == SetMax(dots)
            IN IF \E j \in start..(d - 1) : fname[j] # "."
               THEN SubSeq(fname, d, Len(fname)) ELSE <<>>

\* utils.get_file_ext(fname)
get_file_ext(fname) == IF Len(fname) = 0 THEN <<>> ELSE splitext(fname)

\* base._DC_from_ext(ext): the connector name, or the error raised
DC_from_ext_csvDefault(ext) ==
    IF ext \in {<<".", "xls">>, <<".", "xlsx">>} THEN "excel" ELSE "csv"
DC_from_ext(ext) ==
    IF ext \in {<<".", "csv">>, <<".", "asc">>, <<".", "txt">>, <<".", "dat">>} THEN "csv"
    ELSE IF ext \in {<<".", "xls">>, <<".", "xlsx">>} THEN "excel"
    ELSE "ValueError"

\* str.lower() on the connector names in use
Lower(name) ==
    CASE name = "CSV" -> "csv"
      [] name = "Excel" -> "excel"
      [] name = "Import Filter" -> "import filter"
      [] OTHER -> name

\* the DC.Type the host reports for a connector added under a given name
\* (the host looks connector names up without regard to case)
HostDCType(name) ==
    CASE Lower(name) = "csv" -> "CSV"
      [] Lower(name) = "excel" -> "Excel"
      [] Lower(name) = "import filter" -> "Import Filter"
      [] OTHER -> name

RemoveCmd == Cmd("obj.LT_execute", <<"wbook.dc.Remove()">>)
ImportCmd(arg) == Cmd("obj.DoMethod", <<"dc.import", arg>>)

\* DSheet.has_DC(): the lower-cased connector type, '' when there is none
has_DC(sheet) ==
    [dc |-> IF sheet = "" THEN "" ELSE Lower(sheet),
     calls |-> <<Cmd("obj.GetNumProp", <<"HasDC">>)>>
               \o (IF sheet = "" THEN <<>> ELSE <<Cmd("GetStrProp", <<"DC.Type">>)>>)]

\* Connector.__init__(wks, dctype, keep_DC) on a sheet whose book has connector
\* sheet: the object built, the book's connector afterwards, the host calls
Connector_init(sheet, dctype, keep) ==
    LET h == has_DC(sheet)
        dctype1 == IF dctype = "" THEN (IF h.dc # "" THEN h.dc ELSE "csv") ELSE dctype
        dc == Lower(dctype1)
        replace == h.dc # "" /\ h.dc # dc
        add == h.dc = "" \/ replace
    IN [conn |-> [live |-> TRUE, keep |-> keep, dc |-> dc, optn |-> "None",
                  given |-> dctype],
        sheet |-> IF add THEN HostDCType(dc) ELSE sheet,
        calls |-> h.calls
                  \o (IF replace THEN <<RemoveCmd>> ELSE <<>>)
                  \o (IF add THEN << Cmd("obj.DoMethod", <<"DC.Allow", "2">>),
                                     Cmd("obj.LT_execute", <<"wbook.dc.add", dc>>) >>
                      ELSE <<>>)]

\* Connector.__del__: "if not self.keep"
DelRemoves_never(keep) == FALSE
DelRemoves(keep) == ~keep

\* Connector.__del__
Connector_delete(c, sheet) ==
    IF DelRemoves(c.keep) THEN [sheet |-> "", calls |-> <<RemoveCmd>>]
    ELSE [sheet |-> sheet, calls |-> <<>>]

\* Connector.imp: imp_arg = '1' if self.dc=='Import Filter' else ''
imp_arg(dc, sel) ==
    LET arg == IF dc = "Import Filter" THEN "1" ELSE ""
    IN IF sel # "" THEN "" ELSE arg

\* Connector.imp: po.LT_set_var("@IMPS", oldspark), the value @IMPS is left with
RestoreIMPS_skipped(oldspark, newspark) == newspark
RestoreIMPS(oldspark, newspark) == oldspark

\* lt_dict_to_tree(dd, treename, True, True): its host calls
lt_dict_to_tree_calls(treename) ==
    << Cmd("LT_set_str", <<"__strpytempvar">>),
       Cmd("LT_execute", <<"tree", treename>>),
       Cmd("LT_execute", <<"doc.settreevar", treename, "__strpytempvar">>) >>

DCTreeName == "_trTmpDCSettings"

\* Connector.imp(fname, sel, sparks): the host calls and @IMPS afterwards
Connector_imp(c, imps, fname, sel, sparks) ==
    LET optn == IF c.optn = "dict"
                THEN lt_dict_to_tree_calls(DCTreeName)
                     \o << Cmd("obj.LT_execute", <<DCTreeName, "tostring(wks.dc.optn$)">>),
                           Cmd("LT_execute", <<"del -vt", DCTreeName>>) >>
                ELSE <<>>
        src == IF fname # <<>> THEN <<Cmd("SetStrProp", <<"DC.Source">>)>> ELSE <<>>
        selc == IF sel # "" THEN <<Cmd("SetStrProp", <<"DC.Sel", sel>>)>> ELSE <<>>
        oldspark == imps
        newspark == IF sparks THEN 1 ELSE 0
    IN [imps |-> RestoreIMPS(oldspark, newspark),
        calls |-> optn \o src \o selc
                  \o << Cmd("LT_get_var", <<"@IMPS">>),
                        Cmd("LT_set_var", <<"@IMPS", Str(newspark)>>),
                        ImportCmd(imp_arg(c.dc, sel)),
                        Cmd("LT_set_var", <<"@IMPS",
                                            Str(RestoreIMPS(oldspark, newspark))>>) >>]

\* dc = Connector(wks, dctype, keep_DC), bound to the script's variable; the
\* Connector the variable held before is collected once the new one is built
Connector_new(dctype, keep) ==
    LET c == Connector_init(sheetDC, dctype, keep)
        d == IF conn.live THEN Connector_delete(conn, c.sheet)
             ELSE [sheet |-> c.sheet, calls |-> <<>>]
    IN /\ conn' = c.conn
       /\ sheetDC' = d.sheet
       /\ sent' = c.calls \o d.calls
       /\ last' = [op |-> "Connector.__init__", dctype |-> dctype, keep |-> keep,
                   err |-> ""]
       /\ UNCHANGED <<appVars, fitVars, lrVars, xmlVars, NLFS, IMPS, hist>>

\* del dc
Connector_del ==
    /\ conn.live
    /\ LET d == Connector_delete(conn, sheetDC)
       IN /\ sheetDC' = d.sheet
          /\ sent' = d.calls
    /\ conn' = NoConn
    /\ last' = [op |-> "Connector.__del__", err |-> ""]
    /\ UNCHANGED <<appVars, fitVars, lrVars, xmlVars, NLFS, IMPS, hist>>

\* dc.settings(): _optn() reads wks.dc.optn$ once a non-empty dict is held
Connector_settings(got) ==
    /\ conn.live
    /\ IF conn.optn = "dict"
       THEN /\ sent' = <<>>
            /\ conn' = conn
       ELSE /\ sent' = <<Cmd("obj.LT_execute", <<"tree", DCTreeName, "wks.dc.optn$">>)>>
                       \o lt_tree_to_dict(DCTreeName)
                       \o <<Cmd("LT_execute", <<"del -vt", DCTreeName>>)>>
            /\ conn' = [conn EXCEPT !.optn = got]
    /\ last' = [op |-> "Connector.settings",
                err |-> IF conn'.optn = "dict" THEN ""
                        ELSE IF conn'.optn = "empty" THEN "KeyError" ELSE "TypeError"]
    /\ UNCHANGED <<appVars, fitVars, lrVars, xmlVars, NLFS, IMPS, hist, sheetDC>>

\* dc.imp(fname, sel, sparks)
Connector_import(fname, sel, sparks) ==
    /\ conn.live
    /\ LET r == Connector_imp(conn, IMPS, fname, sel, sparks)
       IN /\ IMPS' = r.imps
          /\ sent' = r.calls
    /\ last' = [op |-> "Connector.imp", dctype |-> conn.given, sel |-> sel,
                sparks |-> sparks, err |-> ""]
    /\ UNCHANGED <<appVars, fitVars, lrVars, xmlVars, NLFS, hist, sheetDC, conn>>

\* wks.remove_DC()
DSheet_remove_DC ==
    /\ sheetDC' = ""
    /\ sent' = <<RemoveCmd>>
    /\ last' = [op |-> "DSheet.remove_DC", err |-> ""]
    /\ UNCHANGED <<appVars, fitVars, lrVars, xmlVars, NLFS, IMPS, hist, conn>>

\* DSheet.from_file(fname, keep_DC, dctype, sel, sparks); the local Connector
\* is collected when from_file returns
DSheet_from_file(fname, keep_DC, dctype, sel, sparks) ==
    LET ext == get_file_ext(fname)
        DC == IF dctype # "" THEN dctype ELSE DC_from_ext(ext)
    IN /\ IF DC = "ValueError"
          THEN /\ sent' = <<>>
               /\ UNCHANGED <<sheetDC, IMPS>>
          ELSE LET c == Connector_init(sheetDC, DC, keep_DC)
                   r == Connector_imp(c.conn, IMPS, fname, sel, sparks)
                   d == Connector_delete(c.conn, c.sheet)
               IN /\ sent' = c.calls \o r.calls \o d.calls
                  /\ IMPS' = r.imps
                  /\ sheetDC' = d.sheet
       /\ last' = [op |-> "DSheet.from_file", fname |-> fname, keep |-> keep_DC,
                   dctype |-> dctype, sel |-> sel, sparks |-> sparks,
                   err |-> IF DC = "ValueError" THEN "ValueError" ELSE ""]
       /\ UNCHANGED <<appVars, fitVars, lrVars, xmlVars, NLFS, hist, conn>>

DCTypes == {"", "excel", "Import Filter"}
Sels == {"", "Sheet2"}

InitDC ==
    /\ InitBase
    /\ oext = TRUE
    /\ NLFS = 0
    /\ nltree = NoTree
    /\ lrtree = NoLRTree
    /\ sheetDC = ""
    /\ IMPS \in 0..MaxIMPS
    /\ conn = NoConn
    /\ pydict = NoDict
    /\ lttree = NoElem
    /\ hist = [imps0 |-> IMPS]

NextDC ==
    \/ \E dctype \in DCTypes, keep \in BOOLEAN : Connector_new(dctype, keep)
    \/ Connector_del
    \/ \E got \in {"dict", "empty"} : Connector_settings(got)
    \/ \E fname \in {<<>>, <<"a", ".", "csv">>}, sel \in Sels, sparks \in BOOLEAN :
          Connector_import(fname, sel, sparks)
    \/ DSheet_remove_DC

SpecDC == InitDC /\ [][NextDC]_vars

\* importing with from_file alone: no Connector is held by the script
NextImport ==
    \/ DSheet_remove_DC
    \/ \E fname \in Fnames, keep_DC \in BOOLEAN, dctype \in DCTypes, sel \in Sels,
          sparks \in BOOLEAN : DSheet_from_file(fname, keep_DC, dctype, sel, sparks)

SpecImport == InitDC /\ [][NextImport]_vars

(***************************************************************************)
(* utils.py: conversion between dicts and XML trees                        *)
(***************************************************************************)
MaxConv == 2      \* conversions applied one after the other

\* A text is a tuple of characters; a run of letters or digits is kept as one
\* word, "CR", "LF" and "NUL" stand for the control characters, and "&lt;",
\* "&amp;", ... for the entities of a serialised document.

\* Python values: a str holds its text, an int or float the decimal expansion
\* of its value, a dict its items in insertion order
PyStr(s) == [t |-> "str", s |-> s]
PyInt(s) == [t |-> "int", s |-> s]
PyFloat(s) == [t |-> "float", s |-> s]
PyDict(items) == [t |-> "dict", items |-> items]
Item(k, v) == [k |-> k, v |-> v]

DictKeys(items) == {items[i].k : i \in 1..Len(items)}
DictGet(items, k) == items[CHOOSE i \in 1..Len(items) : items[i].k = k].v

\* dd[k] = v
DictSet(items, k, v) ==
    IF k \in DictKeys(items)
    THEN [i \in 1..Len(items) |-> IF items[i].k = k THEN Item(k, v) ELSE items[i]]
    ELSE Append(items, Item(k, v))

\* 2^53 + 1, which no double holds, and 2^53, the double nearest to it
Big == <<"900719925474099", "3">>
BigRounded == <<"900719925474099", "2">>
DigitWords == {Digits[i] : i \in 1..Len(Digits)} \cup {"10", "20", "900719925474099"}

\* float(text) succeeds: an unsigned decimal in plain notation
IsFloatText_never(text) == FALSE
IsFloatText(text) ==
    /\ \A i \in 1..Len(text) : text[i] \in DigitWords \cup {"."}
    /\ \E i \in 1..Len(text) : text[i] \in DigitWords
    /\ Cardinality({i \in 1..Len(text) : text[i] = "."}) <= 1

\* float(text): the value, as the double nearest to the decimal
float(text) ==
    LET n == Len(text)
        v == IF n >= 3 /\ text[n - 1] = "." /\ text[n] = "0"
             THEN SubSeq(text, 1, n - 2) ELSE text
    IN IF v = Big THEN BigRounded ELSE v

\* repr(v) and str(v)
RECURSIVE repr(_)
RECURSIVE repr_items(_)
repr_items(items) ==
    IF items = <<>> THEN <<>>
    ELSE <<"'">> \o Head(items).k \o <<"'", ":", " ">> \o repr(Head(items).v)
         \o (IF Len(items) > 1 THEN <<",", " ">> ELSE <<>>)
         \o repr_items(Tail(items))
repr(v) ==
    CASE v.t = "str" -> <<"'">> \o v.s \o <<"'">>
      [] v.t = "int" -> v.s
      [] v.t = "float" -> IF \E i \in 1..Len(v.s) : v.s[i] = "." THEN v.s
                          ELSE v.s \o <<".", "0">>
      [] v.t = "dict" -> <<"{">> \o repr_items(v.items) \o <<"}">>

str(v) == IF v.t = "str" THEN v.s ELSE repr(v)

\* xml.etree.ElementTree elements
NoneText == [set |-> FALSE, s |-> <<>>]
Text(s) == [set |-> TRUE, s |-> s]
Element(tag) == [tag |-> tag, attrib |-> <<>>, text |-> NoneText, children |-> <<>>]

\* a serialised element: escaped attribute values, escaped character data
Doc(tag, attrib, text, children) ==
    [tag |-> tag, attrib |-> attrib, text |-> text, children |-> children]

\* ET._escape_cdata, ET._escape_attrib and the parser's reading of them; the
\* parser also turns a bare carriage return into a line feed
escape_cdata(s) ==
    [i \in 1..Len(s) |-> CASE s[i] = "&" -> "&amp;" [] s[i] = "<" -> "&lt;"
                           [] s[i] = ">" -> "&gt;" [] OTHER -> s[i]]
escape_attrib(s) ==
    [i \in 1..Len(s) |-> CASE s[i] = "&" -> "&amp;" [] s[i] = "<" -> "&lt;"
                           [] s[i] = ">" -> "&gt;" [] s[i] = "\"" -> "&quot;"
                           [] s[i] = "CR" -> "&#13;" [] s[i] = "LF" -> "&#10;"
                           [] OTHER -> s[i]]
CharData(s) == [i \in 1..Len(s) |-> IF s[i] = "CR" THEN "LF" ELSE s[i]]
unescape(s) ==
    LET c == CharData(s)
    IN [i \in 1..Len(c) |-> CASE c[i] = "&amp;" -> "&" [] c[i] = "&lt;" -> "<"
                              [] c[i] = "&gt;" -> ">" [] c[i] = "&quot;" -> "\""
                              [] c[i] = "&#13;" -> "CR" [] c[i] = "&#10;" -> "LF"
                              [] OTHER -> c[i]]

\* ET.tostring(root): an element with no text or with text '' is written empty
RECURSIVE tostring(_)
tostring(e) ==
    Doc(e.tag,
        [i \in 1..Len(e.attrib) |-> Item(e.attrib[i].k, escape_attrib(e.attrib[i].v))],
        IF e.text.set THEN escape_cdata(e.text.s) ELSE <<>>,
        [i \in 1..Len(e.children) |-> tostring(e.children[i])])

\* the document parses: no character outside XML's Char range
RECURSIVE WellFormed(_)
WellFormed(d) ==
    /\ \A i \in 1..Len(d.text) : d.text[i] # "NUL"
    /\ \A i \in 1..Len(d.attrib) :
          \A j \in 1..Len(d.attrib[i].v) : d.attrib[i].v[j] # "NUL"
    /\ \A i \in 1..Len(d.children) : WellFormed(d.children[i])

\* ET.fromstring(xml) of a well-formed document
RECURSIVE fromstring(_)
fromstring(d) ==
    [tag |-> d.tag,
     attrib |-> [i \in 1..Len(d.attrib) |-> Item(d.attrib[i].k, unescape(d.attrib[i].v))],
     text |-> IF d.text = <<>> THEN NoneText ELSE Text(unescape(d.text)),
     children |-> [i \in 1..Len(d.children) |-> fromstring(d.children[i])]]

TREE_NODE_GET_ATTRIBUTES_KEY_PREFIX == "___"

\* _tree_dict_is_key_attributes(key): the key without the prefix, or ''
tree_dict_is_key_attributes(key) ==
    IF key # <<>> /\ Head(key) = TREE_NODE_GET_ATTRIBUTES_KEY_PREFIX
    THEN Tail(key) ELSE <<>>

tree_node_name_to_attributes_key_name(nodename) ==
    <<TREE_NODE_GET_ATTRIBUTES_KEY_PREFIX>> \o nodename

tree_node_get_attributes_key_for_root == <<"root">>

\* _dict_to_xml_element_atts(dd, parent, key)
dict_to_xml_element_atts(dd, parent, key) ==
    LET attkey == tree_node_name_to_attributes_key_name(key)
    IN IF attkey \in DictKeys(dd)
       THEN LET atts == DictGet(dd, attkey).items
            IN [parent EXCEPT !.attrib =
                   [i \in 1..Len(atts) |-> Item(atts[i].k, atts[i].v.s)]]
       ELSE parent

\* _dict_to_xml_element(dd, parent, bAttributes): parent with the attributes
\* set and the children appended
RECURSIVE dict_to_xml_element(_, _, _)
dict_to_xml_element(dd, parent, bAttributes) ==
    IF dd = <<>> THEN parent
    ELSE LET k == Head(dd).k
             v == Head(dd).v
             attr == tree_dict_is_key_attributes(k)
             child == IF v.t = "dict"
                      THEN dict_to_xml_element(v.items, Element(k), bAttributes)
                      ELSE [Element(k) EXCEPT !.text = Text(str(v))]
             parent1 == IF bAttributes /\ attr # <<>>
                        THEN [parent EXCEPT !.attrib = DictSet(@, attr, str(v))]
                        ELSE [parent EXCEPT !.children = Append(@, child)]
         IN dict_to_xml_element(Tail(dd), parent1, bAttributes)

\* _dict_to_xml(dd, bAttributes): the XML string
dict_to_xml(dd, bAttributes) ==
    LET root == dict_to_xml_element(dd, Element(<<"root">>), bAttributes)
    IN tostring(IF bAttributes
                THEN dict_to_xml_element_atts(dd, root,
                                              tree_node_get_attributes_key_for_root)
                ELSE root)

\* _tree_node_attributes_to_dict(dd, node, bRoot)
tree_node_attributes_to_dict(dd, node, bRoot) ==
    IF node.attrib # <<>>
    THEN LET dictAtts == [i \in 1..Len(node.attrib) |->
                             Item(node.attrib[i].k, PyStr(node.attrib[i].v))]
             name == IF bRoot THEN tree_node_get_attributes_key_for_root
                     ELSE node.tag
         IN DictSet(dd, tree_node_name_to_attributes_key_name(name), PyDict(dictAtts))
    ELSE dd

\* _tree_to_dict(dd, node, bAttributes), and the loop over child nodes
RECURSIVE tree_to_dict(_, _, _)
RECURSIVE nodes_to_dict(_, _, _)
nodes_to_dict(dd, nodes, bAttributes) ==
    IF nodes = <<>> THEN dd
    ELSE nodes_to_dict(tree_to_dict(dd, Head(nodes), bAttributes), Tail(nodes),
                       bAttributes)
tree_to_dict(dd, node, bAttributes) ==
    LET val == IF node.children # <<>>
               THEN PyDict(nodes_to_dict(<<>>, node.children, bAttributes))
               ELSE IF ~node.text.set THEN PyStr(<<>>)
               ELSE IF IsFloatText(node.text.s) THEN PyFloat(float(node.text.s))
               ELSE PyStr(node.text.s)
         dd1 == DictSet(dd, node.tag, val)
    IN IF bAttributes THEN tree_node_attributes_to_dict(dd1, node, FALSE) ELSE dd1

\* lt_tree_to_dict(name, add_attributes) on the XML string the host returns
xml_to_dict(xml, add_attributes) ==
    LET tr == fromstring(xml)
        dd == nodes_to_dict(<<>>, tr.children, add_attributes)
    IN IF add_attributes THEN tree_node_attributes_to_dict(dd, tr, TRUE) ELSE dd

ConvTree == "TR"

\* lt_dict_to_tree(dd, 'TR', True, check_attributes)
lt_dict_to_tree(check_attributes) ==
    /\ pydict.t = "dict"
    /\ Len(hist.path) < MaxConv
    /\ lttree' = dict_to_xml(pydict.items, check_attributes)
    /\ sent' = lt_dict_to_tree_calls(ConvTree)
    /\ hist' = [hist EXCEPT !.path = Append(@, <<"lt_dict_to_tree", check_attributes>>)]
    /\ last' = [op |-> "lt_dict_to_tree", attributes |-> check_attributes, err |-> ""]
    /\ UNCHANGED <<appVars, fitVars, lrVars, dcVars, NLFS, pydict>>

\* dd = lt_tree_to_dict('TR', add_attributes)
tree_to_dict_call(add_attributes) ==
    /\ lttree # NoElem
    /\ Len(hist.path) < MaxConv
    /\ pydict' = IF WellFormed(lttree)
                 THEN PyDict(xml_to_dict(lttree, add_attributes)) ELSE pydict
    /\ sent' = lt_tree_to_dict(ConvTree)
    /\ hist' = [hist EXCEPT !.path = Append(@, <<"lt_tree_to_dict", add_attributes>>)]
    /\ last' = [op |-> "lt_tree_to_dict", attributes |-> add_attributes,
                err |-> IF WellFormed(lttree) THEN "" ELSE "ParseError"]
    /\ UNCHANGED <<appVars, fitVars, lrVars, dcVars, NLFS, lttree>>

\* the dicts converted: at most two keys, nested one level
TagKeys == {<<"A">>, <<"B">>}
Leaves ==
    { PyStr(<<"x">>), PyStr(<<"a", "<", "b">>), PyStr(<<>>), PyStr(<<"1">>),
      PyStr(<<"a", "CR", "b">>), PyStr(<<"NUL">>),
      PyInt(<<"1">>), PyInt(Big), PyFloat(<<"1">>), PyFloat(<<"1", ".", "5">>) }
Inner == {PyDict(<<>>)} \cup {PyDict(<<Item(<<"A">>, l)>>) : l \in Leaves}
Dicts ==
    {<<>>}
    \cup {<<Item(k, v)>> : k \in TagKeys, v \in Leaves \cup Inner}
    \cup {<<Item(k[1], v), Item(k[2], w)>> :
             k \in {<<<<"A">>, <<"B">>>>, <<<<"B">>, <<"A">>>>},
             v \in Leaves \cup Inner, w \in Leaves \cup Inner}

\* the host trees converted, as the XML the host writes for them
AttrSets == {<<>>, <<Item(<<"Use">>, <<"1">>)>>}
LeafDocs(tag) == {Doc(tag, a, text, <<>>) : a \in AttrSets, text \in {<<>>, <<"x">>}}
NodeDocs(tag) ==
    LeafDocs(tag) \cup {Doc(tag, a, <<>>, <<c>>) : a \in AttrSets, c \in LeafDocs(<<"row">>)}
Trees ==
    {Doc(<<"OriginStorage">>, a, <<>>, ch) :
        a \in AttrSets,
        ch \in {<<>>} \cup {<<n>> : n \in NodeDocs(<<"A">>)}
               \cup {<<n, m>> : n \in NodeDocs(<<"A">>), m \in NodeDocs(<<"B">>)}}

InitXml ==
    /\ InitBase
    /\ oext = TRUE
    /\ NLFS = 0
    /\ nltree = NoTree
    /\ lrtree = NoLRTree
    /\ sheetDC = ""
    /\ IMPS = 0
    /\ conn = NoConn
    /\ \/ pydict \in {PyDict(dd) : dd \in Dicts} /\ lttree = NoElem
       \/ pydict = NoDict /\ lttree \in Trees
    /\ hist = [dict0 |-> pydict, tree0 |-> lttree, path |-> <<>>]

NextXml ==
    \/ \E check_attributes \in BOOLEAN : lt_dict_to_tree(check_attributes)
    \/ \E add_attributes \in BOOLEAN : tree_to_dict_call(add_attributes)

SpecXml == InitXml /\ [][NextXml]_vars

(***************************************************************************)
(* Properties                                                              *)
(***************************************************************************)
\* the last operation issued the package's own po.Detach()
HasAutoDetach == \E i \in 1..Len(sent) : sent[i].op = "po.Detach"

\* the last operation created an OriginExt.Application
AppCreated == \E i \in 1..Len(sent) : sent[i].op = "OriginExt.Application"

\* C1: in external mode the automatic po.Detach() (from _exit_handler or from
\* BaseObject.__del__) is issued only when the exit flag is set, the live-object
\* count is zero and no wrapper object is live.
C1_DetachOnlyWhenSafe ==
    /\ HasAutoDetach => (oext /\ EXIT /\ OBJS_COUNT = 0 /\ Live = {})
    /\ hist.autoDetached => EXIT

C1_Witness ==
    /\ HasAutoDetach
    /\ last.op = "_exit_handler"
    /\ sent = <<AutoDetach("_exit_handler"), Cmd("app.Exit", <<"True">>)>>

\* C2: in external mode, once the exit handler has run, if the wrapper objects
\* are all destroyed then po.Detach() is invoked: by the handler itself when the
\* count is zero at that moment, otherwise by the destruction that brings the
\* count to zero.
C2_DetachEventually ==
    /\ []((oext /\ EXIT) => (<>(Live = {}) => <>(hist.autoDetached)))
    /\ [][/\ (last'.op = "_exit_handler" /\ OBJS_COUNT = 0) => HasAutoDetach'
          /\ (last'.op = "BaseObject.__del__" /\ oext /\ EXIT /\ OBJS_COUNT = 1)
                => HasAutoDetach']_vars

C2_Witness ==
    /\ oext /\ EXIT /\ Live = {}
    /\ last.op = "BaseObject.__del__"
    /\ HasAutoDetach
    /\ hist.autoDetached

\* C3: APP.__getattr__ creates an OriginExt.Application only when the name is
\* not found on the OriginExt module and no instance is held; a name found on
\* the module creates nothing; at most one Application is created between two
\* consecutive Exit/Attach/Detach calls.
C3_LazyApplication ==
    /\ [](hist.created <= 1)
    /\ [][AppCreated' => /\ last'.op = "getattr"
                         /\ last'.name \notin ModuleAttrs
                         /\ app = "None"]_vars
    /\ [][(last'.op = "getattr" /\ last'.name \in ModuleAttrs)
             => (sent' = <<>> /\ app' = app)]_vars

C3_Witness ==
    /\ hist.created = 1
    /\ last.op = "getattr"
    /\ last.name \in AppAttrs
    /\ app = "Application"
    /\ sent = <<>>

HasEnd(cmds) == NumEnds(cmds) > 0
EndOps == {"NLFit.result", "NLFit.report"}
BeginOps == {"NLFit.set_data", "NLFit.set_mdata", "NLFit.set_range"}

\* C4 (as claimed): the end command 'nlend' is sent to the host only after a
\* begin command has been sent on that NLFit object.
C4_EndOnlyAfterBegin == HasEnd(sent) => hist.begun

\* C4 (amended): the end command is sent only by result() or report() and only
\* while the object's _ended flag is false, and sending it sets the flag; the
\* flag is false after a begin command and also from construction on, so no
\* begin need have been sent.
C4_EndOnlyWhileOpen ==
    /\ [][HasEnd(sent') => /\ last'.op \in EndOps
                           /\ fit.live /\ ~fit.ended
                           /\ fit'.ended]_vars
    /\ [][(last'.op = "NLFit.__init__" /\ last'.err = "")
             => (fit'.live /\ ~fit'.ended /\ ~hist'.begun)]_vars
    /\ [][HasBegin(sent') => (last'.op \in BeginOps /\ ~fit'.ended /\ hist'.begun)]_vars

C4_Witness ==
    /\ last.op = "NLFit.result"
    /\ HasEnd(sent)
    /\ hist.begun
    /\ fit.ended

\* C5: between two consecutive begin calls on an NLFit object result() and
\* report() together send at most one 'nlend'; result() on an ended session
\* only reads the result tree; a begin call re-arms the session, so the next
\* result() or report() sends 'nlend' again.
C5_AtMostOneEnd ==
    /\ [](hist.ends <= 1)
    /\ [][(last'.op = "NLFit.result" /\ fit.live /\ fit.ended)
             => (sent' = lt_tree_to_dict(NLTreeName) /\ fit' = fit)]_vars
    /\ [][HasBegin(sent') => (hist'.ends = 0 /\ ~fit'.ended)]_vars
    /\ [][(last'.op \in EndOps /\ fit.live /\ ~fit.ended /\ hist.ends = 0)
             => (NumEnds(sent') = 1 /\ hist'.ends = 1)]_vars

C5_Witness ==
    /\ last.op = "NLFit.result"
    /\ ~HasEnd(sent)
    /\ sent # <<>>
    /\ hist.begun
    /\ hist.ends = 1

\* C6: NLFit.report() on a session already ended raises ValueError, sends no
\* command to the host, neither reads nor sets @NLFS and leaves the ended flag
\* as it was.
C6_ReportAfterEndRaises ==
    [][(last'.op = "NLFit.report" /\ fit.live /\ fit.ended)
          => /\ last'.err = "ValueError"
             /\ sent' = <<>>
             /\ NLFS' = NLFS
             /\ fit' = fit]_vars

C6_Witness ==
    /\ last.op = "NLFit.report"
    /\ last.err = "ValueError"
    /\ fit.ended
    /\ sent = <<>>

ReportOps == {"NLFit.report", "LinearFit.report"}
IsReportCmd(c) ==
    \/ IsEnd(c)
    \/ c.op = "LT_execute" /\ c.text[1] = "xop" /\ c.text[2] = "execute:=report"

\* cmds sets @NLFS to 0, then runs the end/report command, then sets @NLFS to old
ZeroRunRestore(cmds, old) ==
    \E i, j, k \in 1..Len(cmds) :
        /\ i < j /\ j < k
        /\ cmds[i] = Cmd("LT_set_var", <<"@NLFS", "0">>)
        /\ IsReportCmd(cmds[j])
        /\ cmds[k] = Cmd("LT_set_var", <<"@NLFS", Str(old)>>)
        /\ \A m \in (j + 1)..Len(cmds) : IsNLFS(cmds[m]) => m = k

\* C7: NLFit.report() and LinearFit.report(), when they complete normally, set
\* @NLFS to 0 before the end/report command and afterwards restore the value
\* read on entry, so @NLFS stays at its initial value.
C7_ReportKeepsNLFS ==
    /\ [](NLFS = hist.nlfs0)
    /\ [][(last'.op \in ReportOps /\ last'.err = "")
             => (NLFS' = NLFS /\ ZeroRunRestore(sent', NLFS))]_vars

C7_Witness ==
    /\ last.op = "LinearFit.report"
    /\ NLFS = 1
    /\ fit.live /\ fit.ended
    /\ hist.ends = 1

\* C8: NLFit construction on a valid function: 'lm' with an implicit function
\* raises ValueError, a method other than auto/odr/lm raises ValueError, 'auto'
\* selects ODR exactly when the function is implicit, 'odr' selects ODR, 'lm'
\* with an explicit function does not; the constructor sends no begin command.
C8_MethodValidation ==
    last.op = "NLFit.__init__" =>
        /\ ~HasBegin(sent)
        /\ last.method \notin {"auto", "odr", "lm"} => last.err = "ValueError"
        /\ last.valid =>
             /\ (last.method = "lm" /\ last.implicit) => last.err = "ValueError"
             /\ last.method = "auto" =>
                   (last.err = "" /\ fit.live /\ fit.odr = last.implicit)
             /\ last.method = "odr" => (last.err = "" /\ fit.live /\ fit.odr)
             /\ (last.method = "lm" /\ ~last.implicit) =>
                   (last.err = "" /\ fit.live /\ ~fit.odr)

C8_Witness ==
    /\ last.op = "NLFit.__init__"
    /\ last.valid /\ last.implicit
    /\ last.method = "lm"
    /\ last.err = "ValueError"
    /\ fit.live /\ ~fit.implicit

\* C9: NLFit.fix_param(p, val): a non-boolean number is assigned to p and then
\* f_p is set to 1, in that order; False sets f_p to 0 and True sets f_p to 1,
\* both without an assignment to p, whose value in the tree stays as it was.
C9_FixParam ==
    [][last'.op = "NLFit.fix_param" =>
         LET p == last'.p
             val == last'.val
             assign(k, v) == Cmd("LT_execute", <<"_PY_NLFIT_TREE", k, "=", v>>)
         IN IF val.t = "int"
            THEN /\ sent' = <<assign(p, Digits[val.n + 1]), assign(FixKey(p), "1")>>
                 /\ nltree'[p] = Digits[val.n + 1]
                 /\ nltree'[FixKey(p)] = "1"
            ELSE /\ sent' = <<assign(FixKey(p), IF val.n = 1 THEN "1" ELSE "0")>>
                 /\ nltree'[p] = nltree[p]
                 /\ nltree'[FixKey(p)] = (IF val.n = 1 THEN "1" ELSE "0")]_vars

C9_Witness ==
    /\ last.op = "NLFit.fix_param"
    /\ last.val = PyBool(FALSE)
    /\ nltree[last.p] = "1"
    /\ nltree[FixKey(last.p)] = "0"
    /\ hist.begun

\* C10 (as claimed): once the slope (resp. intercept) of a LinearFit is fixed
\* there is an argument with which fix_slope (resp. fix_intercept) sets
\* Fit.FixSlope (resp. Fit.FixIntercept) to 0, so that a later result() runs
\* with the slope (intercept) not fixed.
C10_FixCanBeTurnedOff ==
    /\ (lr /\ lrtree["Fit.FixSlope"] = "1") =>
          \E val \in LRVals :
             HostRun(lrtree, fix_slope_cmds(val))["Fit.FixSlope"] = "0"
    /\ (lr /\ lrtree["Fit.FixIntercept"] = "1") =>
          \E val \in LRVals :
             HostRun(lrtree, fix_intercept_cmds(val))["Fit.FixIntercept"] = "0"

Removes(cmds) == {i \in 1..Len(cmds) : cmds[i] = RemoveCmd}
Imports(cmds) ==
    {i \in 1..Len(cmds) : cmds[i].op = "obj.DoMethod" /\ cmds[i].text[1] = "dc.import"}

\* C11 (as claimed): from_file with keep_DC=False removes the connector after
\* the import and returns with no connector on the sheet; with keep_DC=True it
\* issues no removal and returns with the connector on the sheet.
C11_KeepOrRemove ==
    (last.op = "DSheet.from_file" /\ last.err = "") =>
        IF ~last.keep
        THEN /\ sheetDC = ""
             /\ \E i \in Imports(sent), j \in Removes(sent) : i < j
        ELSE /\ Removes(sent) = {}
             /\ sheetDC # ""

\* C11 (amended): with keep_DC=False a removal follows the import and the sheet
\* has no connector on return; with keep_DC=True no removal follows the import
\* and the sheet has the connector on return, and a removal is issued (before
\* the import) exactly when the sheet had a connector of another type.
C11_RemoveOnlyOldOrAfterImport ==
    [][(last'.op = "DSheet.from_file" /\ last'.err = "") =>
         IF ~last'.keep
         THEN /\ sheetDC' = ""
              /\ \E i \in Imports(sent'), j \in Removes(sent') : i < j
              /\ sent'[Len(sent')] = RemoveCmd
         ELSE /\ sheetDC' # ""
              /\ \A i \in Imports(sent'), j \in Removes(sent') : j < i
              /\ Removes(sent') # {} <=> (sheetDC # "" /\ sheetDC # sheetDC')]_vars

C11_Witness ==
    /\ last.op = "DSheet.from_file"
    /\ last.err = ""
    /\ ~last.keep
    /\ sheetDC = ""
    /\ Cardinality(Removes(sent)) = 2

CsvExts == {<<".", "csv">>, <<".", "asc">>, <<".", "txt">>, <<".", "dat">>}
ExcelExts == {<<".", "xls">>, <<".", "xlsx">>}
AddCmd(dc) == Cmd("obj.LT_execute", <<"wbook.dc.add", dc>>)
InCmds(c, cmds) == \E i \in 1..Len(cmds) : cmds[i] = c

\* C12: from_file with no dctype imports through the 'csv' connector for the
\* extensions .csv .asc .txt .dat and through 'excel' for .xls .xlsx; for any
\* other extension it raises ValueError with no host call made: no connector
\* removed or added, nothing imported.
C12_ConnectorFromExtension ==
    [][(last'.op = "DSheet.from_file" /\ last'.dctype = "") =>
         LET ext == get_file_ext(last'.fname)
             uses(dc, type) == /\ last'.err = ""
                               /\ Imports(sent') # {}
                               /\ InCmds(AddCmd(dc), sent') \/ sheetDC = type
                               /\ last'.keep => sheetDC' = type
         IN IF ext \in CsvExts THEN uses("csv", "CSV")
            ELSE IF ext \in ExcelExts THEN uses("excel", "Excel")
            ELSE /\ last'.err = "ValueError"
                 /\ sent' = <<>>
                 /\ sheetDC' = sheetDC
                 /\ IMPS' = IMPS]_vars

C12_Witness ==
    /\ last.op = "DSheet.from_file"
    /\ last.fname = <<"a", ".", "CSV">>
    /\ last.dctype = ""
    /\ last.err = "ValueError"
    /\ sheetDC = "Excel"

\* C13 (as claimed): Connector.imp() on a connector built with dctype
\* 'Import Filter' and no selection calls dc.import with argument '1'; for any
\* other connector type, and whenever a selection is given, with ''.
C13_ImportFilterArg ==
    last.op = "Connector.imp" =>
        \E i \in Imports(sent) :
            sent[i].text[2] = (IF last.dctype = "Import Filter" /\ last.sel = ""
                               THEN "1" ELSE "")

\* C14: Connector.imp(sparks=...) sets @IMPS to 1 when sparks is true and to 0
\* otherwise before dc.import, restores the value @IMPS had on entry after it,
\* and so @IMPS stays at its initial value over any sequence of imp calls.
C14_ImpKeepsIMPS ==
    /\ [](IMPS = hist.imps0)
    /\ [][last'.op = "Connector.imp" =>
            /\ IMPS' = IMPS
            /\ \E i, j, k \in 1..Len(sent') :
                 /\ i < j /\ j < k
                 /\ sent'[i] = Cmd("LT_set_var",
                                   <<"@IMPS", IF last'.sparks THEN "1" ELSE "0">>)
                 /\ j \in Imports(sent')
                 /\ sent'[k] = Cmd("LT_set_var", <<"@IMPS", Digits[IMPS + 1]>>)
                 /\ \A m \in 1..Len(sent') :
                      sent'[m].op = "LT_set_var" => m \in {i, k}]_vars

C14_Witness ==
    /\ last.op = "Connector.imp"
    /\ last.sparks
    /\ IMPS = 0
    /\ conn.optn = "dict"

\* _dict_to_xml(dd) followed by _tree_to_dict over the children of its root
DictRoundTrip == << <<"lt_dict_to_tree", FALSE>>, <<"lt_tree_to_dict", FALSE>> >>

LooksNumeric(s) ==
    /\ \E i \in 1..Len(s) : s[i] # "."
    /\ \A i \in 1..Len(s) : s[i] \in DigitWords \cup {"."}

\* nested dicts are non-empty; string leaves are not parseable as numbers
RECURSIVE InClaimedClass(_)
InClaimedClass(v) ==
    CASE v.t = "dict" -> /\ v.items # <<>>
                         /\ \A i \in 1..Len(v.items) : InClaimedClass(v.items[i].v)
      [] v.t = "str" -> ~LooksNumeric(v.s)
      [] OTHER -> TRUE

\* what the claim says comes back: strings as they are, numbers as floats
RECURSIVE Claimed(_)
Claimed(v) ==
    CASE v.t = "dict" -> PyDict([i \in 1..Len(v.items) |->
                                    Item(v.items[i].k, Claimed(v.items[i].v))])
      [] v.t = "str" -> v
      [] OTHER -> PyFloat(v.s)

\* C15 (as claimed): a dict with distinct tag keys, non-empty nested dicts and
\* string leaves not parseable as numbers comes back from _dict_to_xml and
\* _tree_to_dict equal to the original, but for numeric leaves, which come back
\* as the float of equal value ('' comes back as '').
C15_RoundTrip ==
    (hist.path = DictRoundTrip /\ hist.dict0.t = "dict"
        /\ \A i \in 1..Len(hist.dict0.items) : InClaimedClass(hist.dict0.items[i].v))
    => (last.err = "" /\ pydict = Claimed(hist.dict0))

RECURSIVE HasChar(_, _)
HasChar(v, c) ==
    CASE v.t = "dict" -> \E i \in 1..Len(v.items) : HasChar(v.items[i].v, c)
      [] v.t = "str" -> \E i \in 1..Len(v.s) : v.s[i] = c
      [] OTHER -> FALSE

RECURSIVE HasInt(_, _)
HasInt(v, n) ==
    CASE v.t = "dict" -> \E i \in 1..Len(v.items) : HasInt(v.items[i].v, n)
      [] v.t = "int" -> v.s = n
      [] OTHER -> FALSE

\* what comes back: a string with its carriage returns as line feeds, or as a
\* float when it reads as a number; a number as the nearest float; an empty
\* nested dict as ''
RECURSIVE Returned(_)
Returned(v) ==
    CASE v.t = "dict" ->
            IF v.items = <<>> THEN PyStr(<<>>)
            ELSE PyDict([i \in 1..Len(v.items) |->
                            Item(v.items[i].k, Returned(v.items[i].v))])
      [] v.t = "str" ->
            IF LooksNumeric(v.s) THEN PyFloat(v.s)
            ELSE PyStr([i \in 1..Len(v.s) |-> IF v.s[i] = "CR" THEN "LF" ELSE v.s[i]])
      [] OTHER -> PyFloat(IF v.s = Big THEN BigRounded ELSE v.s)

\* C15 (amended): the round trip returns the original dict when its nested
\* dicts are non-empty and its leaves are strings that are not parseable as
\* numbers and hold no carriage return and no character XML cannot carry; a
\* float, or an int a float holds exactly, comes back as the float of equal
\* value, an int beyond 2^53 as the nearest float, a carriage return as a line
\* feed, '' as '', and a character XML cannot carry makes the parse fail.
C15_RoundTripOfXmlText ==
    (hist.path = DictRoundTrip /\ hist.dict0.t = "dict") =>
        IF HasChar(hist.dict0, "NUL")
        THEN last.err = "ParseError"
        ELSE /\ last.err = ""
             /\ pydict = PyDict([i \in 1..Len(hist.dict0.items) |->
                                   Item(hist.dict0.items[i].k,
                                        Returned(hist.dict0.items[i].v))])
             /\ (/\ \A i \in 1..Len(hist.dict0.items) :
                       InClaimedClass(hist.dict0.items[i].v)
                 /\ ~HasChar(hist.dict0, "CR")
                 /\ ~HasInt(hist.dict0, Big))
                => pydict = Claimed(hist.dict0)

C15_Witness ==
    /\ hist.path = DictRoundTrip
    /\ hist.dict0 = PyDict(<<Item(<<"A">>, PyStr(<<"a", "<", "b">>)),
                             Item(<<"B">>, PyDict(<<Item(<<"A">>, PyInt(<<"1">>))>>))>>)
    /\ pydict = PyDict(<<Item(<<"A">>, PyStr(<<"a", "<", "b">>)),
                         Item(<<"B">>, PyDict(<<Item(<<"A">>, PyFloat(<<"1">>))>>))>>)

\* lt_tree_to_dict(add_attributes=True), then lt_dict_to_tree(check_attributes=True)
TreeRoundTrip == << <<"lt_tree_to_dict", TRUE>>, <<"lt_dict_to_tree", TRUE>> >>

AttribSet(d) == {d.attrib[i] : i \in 1..Len(d.attrib)}

\* corresponding elements carry the same attributes
RECURSIVE SameAttribs(_, _)
SameAttribs(d, e) ==
    /\ AttribSet(d) = AttribSet(e)
    /\ Len(d.children) = Len(e.children)
    /\ \A i \in 1..Len(d.children) : SameAttribs(d.children[i], e.children[i])

\* C16 (as claimed): a tree read with add_attributes=True and written back
\* unchanged with check_attributes=True has, on every element, exactly the
\* attributes of the corresponding element of the original tree.
C16_AttributesRoundTrip ==
    (hist.path = TreeRoundTrip /\ hist.tree0 # NoElem) => SameAttribs(hist.tree0, lttree)

\* C17: in external mode _OBJS_COUNT[0] is the number of BaseObject instances
\* created and not yet destroyed, those whose construction raised TypeError
\* included, and it is never negative.
C17_CounterExact ==
    oext => (OBJS_COUNT = Cardinality(Live) /\ OBJS_COUNT >= 0)

C17_Witness ==
    /\ oext
    /\ last.op = "BaseObject.__init__"
    /\ last.err = "TypeError"
    /\ \E o \in ObjIds : objs[o] = "live"
    /\ OBJS_COUNT = 2

====
